---- MODULE Spec2Model ----
(***************************************************************************)
(* Model of segmentation.py: the PairedAndUnpairedDataset /                *)
(* PairedAndUnpairedDataModule sample assembly, the start-up sequence of   *)
(* the main script and DDMMLightningModule._common_step.                   *)
(*                                                                         *)
(* The specifications of the module:                                       *)
(*   Spec     the data module constructor and the data-loader workers      *)
(*            calling PairedAndUnpairedDataset._transform / __len__;       *)
(*   SpecRun  the main script from datamodule.setup on, and the training,  *)
(*            validation and test steps of DDMMLightningModule;            *)
(*   SpecRunFair  SpecRun with a started step running to its end.          *)
(* Python lists are 0-based: Item(list, p) reads position p.               *)
(***************************************************************************)
EXTENDS Integers, Sequences, FiniteSets, TLC

\* ---------------------------------------------------------------- bounds
\* files found for one stream, at most
MaxLen == 2
\* largest explicit dataset length (train_samples / val_samples)
MaxSamples == 3
\* data-loader worker processes modelled
MaxWorkers == 2
\* number of states of the abstract random generator
RngStates == 2
\* largest --timesteps
MaxT == 2
\* largest --seed besides the default
MaxSeed == 0
\* torch.rand yields k / ProbSteps for k in 0..ProbSteps-1
ProbSteps == 3

\* ------------------------------------------------------- python helpers
Streams == 0..3

Workers == 1..MaxWorkers

\* list[p] for a 0-based position p; the caller checks the range
Item(list, p) == list[p + 1]

\* list[:n]
Slice(list, n) == SubSeq(list, 1, IF Len(list) < n THEN Len(list) ELSE n)

EmptyDict == [k \in {} |-> 0]

\* d[k] = v
DictSet(d, k, v) == [x \in (DOMAIN d) \cup {k} |-> IF x = k THEN v ELSE d[x]]

RECURSIVE Flatten(_)
\* [item for sublist in paths for item in sublist]
Flatten(paths) ==
    IF paths = <<>> THEN <<>> ELSE Head(paths) \o Flatten(Tail(paths))

RECURSIVE InsertSorted(_, _)
InsertSorted(list, x) ==
    IF list = <<>> THEN <<x>>
    ELSE IF x < Head(list) THEN <<x>> \o list
         ELSE <<Head(list)>> \o InsertSorted(Tail(list), x)

RECURSIVE sorted(_)
\* sorted(list): ascending, stable
sorted(list) ==
    IF list = <<>> THEN <<>>
    ELSE InsertSorted(sorted(SubSeq(list, 1, Len(list) - 1)), list[Len(list)])

RECURSIVE MinOf(_)
\* min(iterable); the caller checks that S is not empty
MinOf(S) ==
    LET x == CHOOSE y \in S : TRUE
    IN  IF S = {x} THEN x
        ELSE LET m == MinOf(S \ {x}) IN IF x < m THEN x ELSE m

\* ------------------------------------------------------ the file system
\* The path of the k-th file (k >= 1) below the directories of stream j:
\* paths of different streams differ, and sort by stream, then by k.
Path(j, k) == j * (MaxLen + 1) + k

\* The directories of stream j when n files match: glob.glob returns each
\* folder's files in arbitrary order; here the first folder holds the
\* even-numbered files, the second the odd-numbered ones, both descending.
RECURSIVE Listing(_, _, _)
Listing(j, n, parity) ==
    IF n = 0 THEN <<>>
    ELSE IF n % 2 = parity THEN <<Path(j, n)>> \o Listing(j, n - 1, parity)
         ELSE Listing(j, n - 1, parity)

Folders(j, n) == << Listing(j, n, 0), Listing(j, n, 1) >>

\* ------------------------------------------------------------ variables
VARIABLES
    disk,          \* disk[j]: per folder of stream j, the files glob finds
    train_samples, \* the data module's train_samples argument: [none, n]
    use_transform, \* whether the dataset is given a transform
    files,         \* the four train_*_files lists of the data module
    printed,       \* what glob_files printed
    dm,            \* "new" before PairedAndUnpairedDataModule.__init__, then "ok" / "raised"
    ds,            \* the dataset: [made, keys, data, length, transform]
    epoch_len,     \* len(dataset) taken by the sampler of the running epoch: [called, n]
    R,             \* R[w]: state of self.R in worker process w, seeded when the
                   \* worker starts with the loader's base seed + w
    ret,           \* outcome of the last _transform call (later: it was not the
                   \* first call)
    pcMain,        \* position of the main script
    hparams,       \* the parsed command line: [seed, timesteps]
    global_seed,   \* the seed last given to the global random generators: [set, n]
    model,         \* the DDMMLightningModule: [built, num_timesteps, timesteps, scheduler]
    pcStep,        \* position inside _common_step: "idle", "loop", "loss"
    frame,         \* the locals of the running _common_step
    logged,        \* the self.log calls of the current / last step
    image,         \* the add_image call of the current / last step: [written, tag]
    info           \* what the last step returned: [returned, loss]

dataVars == << disk, train_samples, use_transform, files, printed, dm, ds,
               epoch_len, R, ret >>

stepVars == << pcStep, frame, logged, image, info >>

runVars == << pcMain, hparams, global_seed, model, stepVars >>

vars == << dataVars, runVars >>

\* ------------------------------------- numpy.random.RandomState (self.R)
\* The generator is abstracted to a counter modulo RngStates: seeding puts
\* it in a state fixed by the seed, every draw advances it by one.
\* seed as it would be if self.R.seed(index) were missing: the state stays
R_seed_missing(s, index) == s

\* RandomState.seed(index) in state s: the old state is discarded
R_seed(s, index) == index % RngStates

\* RandomState.randint(low, high) in state s: ValueError when low >= high
\* (nothing is drawn), otherwise a value in low..high-1 and the next state.
randint(s, low, high) ==
    IF low >= high
    THEN [raised |-> TRUE, state |-> s, value |-> 0]
    ELSE LET s1 == (s + 1) % RngStates
         IN  [raised |-> FALSE, state |-> s1, value |-> low + (s1 % (high - low))]

\* list[p] as Python evaluates it: IndexError outside -len..len-1,
\* a negative p counts from the end.
getitem(list, p) ==
    IF p >= Len(list) \/ p < 0 - Len(list)
    THEN [raised |-> TRUE, value |-> 0]
    ELSE [raised |-> FALSE,
          value |-> IF p >= 0 THEN Item(list, p) ELSE Item(list, Len(list) + p)]

\* --------------------------------------------- PairedAndUnpairedDataset
train_keys == [j \in Streams |->
    CASE j = 0 -> "source" [] j = 1 -> "target" [] j = 2 -> "images" [] OTHER -> "labels"]

\* PairedAndUnpairedDataset.__init__
PairedAndUnpairedDataset(keys, data, transform, len) ==
    [made |-> TRUE, keys |-> keys, data |-> data, length |-> len, transform |-> transform]

\* __len__ testing the truth of self.length instead of "is None"
len_truthy(self) ==
    IF self.length.none \/ self.length.n = 0
    THEN MinOf({Len(self.data[j]) : j \in DOMAIN self.data})
    ELSE self.length.n

\* PairedAndUnpairedDataset.__len__
__len__(self) ==
    IF self.length.none
    THEN MinOf({Len(self.data[j]) : j \in DOMAIN self.data})
    ELSE self.length.n

\* apply_transform(self.transform, data): LoadImaged and the later
\* transforms replace every path by the image loaded from that path
apply_transform(data) == [k \in DOMAIN data |-> [image_of |-> data[k]]]

\* rand_idx = self.R.randint(0, len(self.data[0]))
draw_idx(self, s) == randint(s, 0, Len(self.data[0]))

\* self.data[0][rand_idx]
read_image(self, rand_idx) == getitem(self.data[0], rand_idx)

\* the label read from a list in the opposite order
read_label_reversed(self, rand_idx) ==
    getitem(self.data[1], Len(self.data[1]) - 1 - rand_idx)

\* self.data[1][rand_idx]
read_label(self, rand_idx) == getitem(self.data[1], rand_idx)

\* rand_idy drawn with an inclusive upper end
draw_idy_inclusive(self, s) == randint(s, 0, Len(self.data[2]) + 1)

\* rand_idy = self.R.randint(0, len(self.data[2]))
draw_idy(self, s) == randint(s, 0, Len(self.data[2]))

\* the unpaired image read from the supervised image stream
read_unsup_image_from_paired(self, rand_idy) == getitem(self.data[0], rand_idy)

\* self.data[2][rand_idy]
read_unsup_image(self, rand_idy) == getitem(self.data[2], rand_idy)

\* rand_idz = self.R.randint(0, len(self.data[3]))
draw_idz(self, s) == randint(s, 0, Len(self.data[3]))

\* self.data[3][rand_idz]
read_unsup_label(self, rand_idz) == getitem(self.data[3], rand_idz)

\* PairedAndUnpairedDataset._transform(index) in a process whose self.R is
\* in state r: the outcome, the sample returned, the dict assembled before
\* the transform, the positions drawn, the (stream, position) reads made
\* and the generator state left behind. An exception ends the call where
\* it is raised.
_transform(self, r, index) ==
    LET s0   == R_seed(r, index)
        dx   == draw_idx(self, s0)
        rand_idx == dx.value
        g0   == read_image(self, rand_idx)
        g1   == read_label(self, rand_idx)
        dy   == draw_idy(self, dx.state)
        rand_idy == dy.value
        g2   == read_unsup_image(self, rand_idy)
        dz   == draw_idz(self, dy.state)
        rand_idz == dz.value
        g3   == read_unsup_label(self, rand_idz)
        d0   == DictSet(EmptyDict, self.keys[0], g0.value)
        d1   == DictSet(d0, self.keys[1], g1.value)
        d2   == DictSet(d1, self.keys[2], g2.value)
        d3   == DictSet(d2, self.keys[3], g3.value)
        rx   == {<<0, rand_idx>>, <<1, rand_idx>>}
        ry   == rx \cup {<<2, rand_idy>>}
        rz   == ry \cup {<<3, rand_idz>>}
        Raise(state, pos, reads) ==
            [status |-> "raise", sample |-> EmptyDict, assembled |-> EmptyDict,
             pos |-> pos, reads |-> reads, state |-> state]
    IN  IF dx.raised THEN Raise(s0, <<>>, {})
        ELSE IF g0.raised THEN Raise(dx.state, <<rand_idx>>, {<<0, rand_idx>>})
        ELSE IF g1.raised THEN Raise(dx.state, <<rand_idx>>, rx)
        ELSE IF dy.raised THEN Raise(dx.state, <<rand_idx>>, rx)
        ELSE IF g2.raised THEN Raise(dy.state, <<rand_idx, rand_idy>>, ry)
        ELSE IF dz.raised THEN Raise(dy.state, <<rand_idx, rand_idy>>, ry)
        ELSE IF g3.raised THEN Raise(dz.state, <<rand_idx, rand_idy, rand_idz>>, rz)
        ELSE [status |-> "ok",
              sample |-> IF self.transform THEN apply_transform(d3) ELSE d3,
              assembled |-> d3,
              pos |-> <<rand_idx, rand_idy, rand_idz>>,
              reads |-> rz,
              state |-> dz.state]

\* ------------------------------------------ PairedAndUnpairedDataModule
\* glob_files printing files[0] instead of files[:1]
glob_files_first(folders) ==
    LET paths == folders
        fl    == sorted(Flatten(paths))
    IN  IF fl = <<>>
        THEN [raised |-> TRUE, files |-> <<>>, printed |-> << 0, <<>> >>]
        ELSE [raised |-> FALSE, files |-> fl, printed |-> << Len(fl), <<fl[1]>> >>]

\* glob_files of PairedAndUnpairedDataModule.__init__: the sorted files of
\* all folders, after printing their number and files[:1]
glob_files(folders) ==
    LET paths == folders
        fl    == sorted(Flatten(paths))
    IN  [raised |-> FALSE, files |-> fl, printed |-> << Len(fl), Slice(fl, 1) >>]

\* ---------------------------------------------------------------- Init
NoLength == [none |-> TRUE, n |-> 0]

\* indices a sampler can produce within the bounds
MaxIndex == (IF MaxSamples > MaxLen THEN MaxSamples ELSE MaxLen) - 1

NoRet == [called |-> FALSE, index |-> 0, later |-> FALSE, status |-> "none", sample |-> EmptyDict,
          assembled |-> EmptyDict, pos |-> <<>>, reads |-> {}]

\* the state before PairedAndUnpairedDataModule is constructed: any number
\* of files per stream, any train_samples, any base seed of the workers
InitData ==
    /\ \E n \in [Streams -> 0..MaxLen] : disk = [j \in Streams |-> Folders(j, n[j])]
    /\ train_samples \in {NoLength} \cup {[none |-> FALSE, n |-> k] : k \in 0..MaxSamples}
    /\ use_transform \in BOOLEAN
    /\ files = [j \in Streams |-> <<>>]
    /\ printed = [j \in Streams |-> <<>>]
    /\ dm = "new"
    /\ ds = [made |-> FALSE, keys |-> train_keys, data |-> [j \in Streams |-> <<>>],
             length |-> NoLength, transform |-> FALSE]
    /\ epoch_len = [called |-> FALSE, n |-> 0]
    /\ \E base_seed \in 0..(RngStates - 1) :
          R = [w \in Workers |-> R_seed(0, base_seed + w)]
    /\ ret = NoRet

\* --------------------------------------------------- DDMMLightningModule
\* Tensors are abstracted to one number of two levels; a network output, a
\* sampled noise and the result of a scheduler step are any such number.
Vals == {0, 1}

SampleNames == {"sample_source", "sample_target", "sample_prev", "sample_next"}

\* nn.L1Loss()(a, b): the mean absolute difference
loss_func(a, b) == IF a >= b THEN a - b ELSE b - a

\* range(n)
range(n) == [i \in 1..n |-> i - 1]

\* DDPMScheduler(num_train_timesteps=n)
DDPMScheduler(n) == [num_train_timesteps |-> n]

\* DDMMLightningModule.__init__(hparams)
DDMMLightningModule(hp) ==
    [built |-> TRUE, num_timesteps |-> hp.timesteps, timesteps |-> hp.timesteps,
     scheduler |-> DDPMScheduler(hp.timesteps)]

NoModel == [built |-> FALSE, num_timesteps |-> 0, timesteps |-> 0,
            scheduler |-> [num_train_timesteps |-> 0]]

\* the loop running from the last timestep down, as DDPM sampling usually does
loop_range_reversed(self) == [i \in 1..self.num_timesteps |-> self.num_timesteps - i]

\* range(self.num_timesteps) of the sampling loop
loop_range(self) == range(self.num_timesteps)

\* class_prev = (class_prob * self.num_timesteps).int() for class_prob =
\* k / ProbSteps, a value of torch.rand in [0, 1)
class_prev_rounded_up(self, k) ==
    (k * self.num_timesteps + (ProbSteps - 1)) \div ProbSteps

class_prev_of(self, k) == (k * self.num_timesteps) \div ProbSteps

\* super_loss = 0; super_loss += L1(noise, noise_source_pred);
\* super_loss += L1(noise, noise_target_pred)
super_loss_of(noise, noise_source_pred, noise_target_pred) ==
    (0 + loss_func(noise, noise_source_pred)) + loss_func(noise, noise_target_pred)

\* the second term assigned instead of added
unsup_loss_overwritten(sample_prev, sample_prev_pred, sample_next, sample_next_pred) ==
    loss_func(sample_next, sample_next_pred)

\* unsup_loss = 0; unsup_loss += L1(sample_prev, sample_prev_pred);
\* unsup_loss += L1(sample_next, sample_next_pred)
unsup_loss_of(sample_prev, sample_prev_pred, sample_next, sample_next_pred) ==
    (0 + loss_func(sample_prev, sample_prev_pred)) + loss_func(sample_next, sample_next_pred)

\* self.log(name, value, on_step=...)
log(name, value, on_step) == [name |-> name, value |-> value, on_step |-> on_step]

NoFrame ==
    [stage |-> "none", batch_idx |-> 0, noise |-> 0, noise_source_pred |-> 0,
     noise_target_pred |-> 0, super_loss |-> 0, unsup_loss |-> 0, loss |-> 0,
     class_prev |-> 0, class_next |-> 0,
     sample |-> [s \in SampleNames |-> 0], steps |-> [s \in SampleNames |-> <<>>],
     it |-> 0, sample_prev_pred |-> 0, sample_next_pred |-> 0,
     image2label_timesteps |-> 0, label2image_timesteps |-> 0]

\* line 347: self.global_step as the trainer holds it when the grid is
\* written; values below, at and above a multiple of 10
GlobalSteps == {0, 9, 10, 25}

writes_image_any_stage(stage, batch_idx) == batch_idx % 10 = 0

\* line 335: the guard of the image grid
writes_image(stage, batch_idx) == stage = "train" /\ batch_idx % 10 = 0

\* line 347: the step index of add_image
image_step(global_step) == global_step \div 10

\* the add_image call of the step: its tag and step index, and the stage,
\* batch_idx and global_step of the step that made it
NoImage ==
    [written |-> FALSE, tag |-> <<"none", "">>, step |-> 0,
     stage |-> "none", batch_idx |-> 0, global_step |-> 0]

NoInfo == [returned |-> FALSE, loss |-> 0, stage |-> "none", batch_idx |-> 0]

\* the batch_idx values handed to a step: multiples of 10 and others
BatchIdxs == {0, 3, 10, 11}

\* ------------------------------------------------------ the main script
\* default of --seed
seed_default == 42

\* default of setup's seed parameter
setup_seed_default == 42

Seeds == (0..MaxSeed) \cup {seed_default}

\* monai's set_determinism(seed): the global generators are seeded
set_determinism(seed) == [set |-> TRUE, n |-> seed]

\* PairedAndUnpairedDataModule.setup(seed, stage)
setup(seed) == set_determinism(seed)

\* pytorch_lightning.seed_everything(seed)
seed_everything(seed) == [set |-> TRUE, n |-> seed]

\* the main script and the model are not part of Spec
RunIdle ==
    /\ pcMain = "idle"
    /\ hparams = [seed |-> seed_default, timesteps |-> 1]
    /\ global_seed = [set |-> FALSE, n |-> 0]
    /\ model = NoModel
    /\ pcStep = "idle"
    /\ frame = NoFrame
    /\ logged = {}
    /\ image = NoImage
    /\ info = NoInfo

\* -------------------------------------------------- actions of the data
\* PairedAndUnpairedDataModule.__init__: the four train lists are globbed
PairedAndUnpairedDataModule ==
    /\ dm = "new"
    /\ LET g == [j \in Streams |-> glob_files(disk[j])]
       IN  IF \E j \in Streams : g[j].raised
           THEN /\ dm' = "raised"
                /\ UNCHANGED << files, printed >>
           ELSE /\ dm' = "ok"
                /\ files' = [j \in Streams |-> g[j].files]
                /\ printed' = [j \in Streams |-> g[j].printed]
    /\ UNCHANGED << disk, train_samples, use_transform, ds, epoch_len, R, ret >>
    /\ UNCHANGED runVars

\* PairedAndUnpairedDataModule.train_dataloader: the dataset is built over
\* the four lists with length = train_samples
train_dataloader ==
    /\ dm = "ok"
    /\ ~ds.made
    /\ ds' = PairedAndUnpairedDataset(train_keys, files, use_transform, train_samples)
    /\ UNCHANGED << disk, train_samples, use_transform, files, printed, dm,
                    epoch_len, R, ret >>
    /\ UNCHANGED runVars

\* the DataLoader starts an epoch: its sampler takes len(dataset)
DataLoader_iter ==
    /\ ds.made
    /\ epoch_len' = [called |-> TRUE, n |-> __len__(ds)]
    /\ UNCHANGED << disk, train_samples, use_transform, files, printed, dm, ds,
                    R, ret >>
    /\ UNCHANGED runVars

\* Dataset.__getitem__(index) in worker process w, for an index of the
\* sampler: PairedAndUnpairedDataset._transform(index)
__getitem__(w, index) ==
    /\ epoch_len.called
    /\ index < epoch_len.n
    /\ LET out == _transform(ds, R[w], index)
       IN  /\ R' = [R EXCEPT ![w] = out.state]
           /\ ret' = [called |-> TRUE, index |-> index, later |-> ret.called,
                      status |-> out.status,
                      sample |-> out.sample, assembled |-> out.assembled,
                      pos |-> out.pos, reads |-> out.reads]
    /\ UNCHANGED << disk, train_samples, use_transform, files, printed, dm, ds,
                    epoch_len >>
    /\ UNCHANGED runVars

Next ==
    \/ PairedAndUnpairedDataModule
    \/ train_dataloader
    \/ DataLoader_iter
    \/ \E w \in Workers, index \in 0..MaxIndex : __getitem__(w, index)

Init == InitData /\ RunIdle

Spec == Init /\ [][Next]_vars

TypeOKData ==
    /\ dm \in {"new", "ok", "raised"}
    /\ \A w \in Workers : R[w] \in 0..(RngStates - 1)
    /\ ret.status \in {"none", "ok", "raise"}

\* ----------------------------------------------------- SpecRun: the run
\* the data module is constructed, its workers are not part of SpecRun
DataIdle ==
    /\ disk = [j \in Streams |-> Folders(j, 0)]
    /\ train_samples = NoLength
    /\ use_transform = FALSE
    /\ files = [j \in Streams |-> <<>>]
    /\ printed = [j \in Streams |-> <<>>]
    /\ dm = "ok"
    /\ ds = [made |-> FALSE, keys |-> train_keys, data |-> [j \in Streams |-> <<>>],
             length |-> NoLength, transform |-> FALSE]
    /\ epoch_len = [called |-> FALSE, n |-> 0]
    /\ R = [w \in Workers |-> 0]
    /\ ret = NoRet

\* the main script after parse_args and the data module's construction: any
\* --seed, any --timesteps >= 1 (with 0 the first step fails at torch.randint)
InitRun ==
    /\ DataIdle
    /\ pcMain = "setup"
    /\ hparams \in [seed : Seeds, timesteps : 1..MaxT]
    /\ global_seed = [set |-> FALSE, n |-> 0]
    /\ model = NoModel
    /\ pcStep = "idle"
    /\ frame = NoFrame
    /\ logged = {}
    /\ image = NoImage
    /\ info = NoInfo

\* datamodule.setup(seed=hparams.seed)
Main_datamodule_setup ==
    /\ pcMain = "setup"
    /\ global_seed' = setup(hparams.seed)
    /\ pcMain' = "model"
    /\ UNCHANGED << hparams, model, stepVars, dataVars >>

\* model = DDMMLightningModule(hparams = hparams)
Main_model ==
    /\ pcMain = "model"
    /\ model' = DDMMLightningModule(hparams)
    /\ pcMain' = "seed_everything"
    /\ UNCHANGED << hparams, global_seed, stepVars, dataVars >>

\* seed_everything(42), then the callbacks, the logger and the Trainer
Main_seed_everything ==
    /\ pcMain = "seed_everything"
    /\ global_seed' = seed_everything(42)
    /\ pcMain' = "fit"
    /\ UNCHANGED << hparams, model, stepVars, dataVars >>

\* trainer.fit(model, datamodule): the trainer calls datamodule.setup(stage=
\* "fit"), leaving seed at its default, and training begins
Main_trainer_fit ==
    /\ pcMain = "fit"
    /\ global_seed' = setup(setup_seed_default)
    /\ pcMain' = "training"
    /\ UNCHANGED << hparams, model, stepVars, dataVars >>

\* _common_step, lines 268-300: the supervised loss, the classes, the four
\* running samples start as clones of the noise
_common_step(batch_idx, stage) ==
    /\ pcMain = "training"
    /\ pcStep = "idle"
    /\ \E noise \in Vals, noise_source_pred \in Vals, noise_target_pred \in Vals,
          k \in 0..(ProbSteps - 1) :
         LET class_prev == class_prev_of(model, k)
         IN  frame' = [NoFrame EXCEPT
                 !.stage = stage,
                 !.batch_idx = batch_idx,
                 !.noise = noise,
                 !.noise_source_pred = noise_source_pred,
                 !.noise_target_pred = noise_target_pred,
                 !.super_loss = super_loss_of(noise, noise_source_pred, noise_target_pred),
                 !.class_prev = class_prev,
                 !.class_next = class_prev + 1,
                 !.sample = [s \in SampleNames |-> noise]]
    /\ pcStep' = "loop"
    /\ logged' = {}
    /\ image' = NoImage
    /\ info' = NoInfo
    /\ UNCHANGED << pcMain, hparams, global_seed, model, dataVars >>

\* training_step(batch, batch_idx)
training_step(batch_idx) == _common_step(batch_idx, "train")

\* validation_step(batch, batch_idx)
validation_step(batch_idx) == _common_step(batch_idx, "validation")

\* test_step(batch, batch_idx)
test_step(batch_idx) == _common_step(batch_idx, "test")

\* one iteration of the no-grad loop, lines 303-312: every running sample is
\* replaced by scheduler.step(output, t, sample)
_common_step_loop ==
    /\ pcStep = "loop"
    /\ frame.it < Len(loop_range(model))
    /\ LET t == loop_range(model)[frame.it + 1]
       IN  \E stepped \in [SampleNames -> Vals] :
             frame' = [frame EXCEPT
                 !.sample = stepped,
                 !.steps = [s \in SampleNames |-> Append(frame.steps[s], t)],
                 !.it = @ + 1]
    /\ UNCHANGED << pcStep, logged, image, info >>
    /\ UNCHANGED << pcMain, hparams, global_seed, model, dataVars >>

\* the loop is exhausted; lines 314-324: the unsupervised loss, the two
\* self.log calls, loss = super_loss + unsup_loss
_common_step_loss ==
    /\ pcStep = "loop"
    /\ frame.it >= Len(loop_range(model))
    /\ \E sample_prev_pred \in Vals, sample_next_pred \in Vals :
         LET unsup_loss == unsup_loss_of(frame.sample["sample_prev"], sample_prev_pred,
                                         frame.sample["sample_next"], sample_next_pred)
         IN  /\ frame' = [frame EXCEPT
                    !.sample_prev_pred = sample_prev_pred,
                    !.sample_next_pred = sample_next_pred,
                    !.image2label_timesteps = frame.class_prev,
                    !.label2image_timesteps = frame.class_next,
                    !.unsup_loss = unsup_loss,
                    !.loss = frame.super_loss + unsup_loss]
             /\ logged' = { log(<<frame.stage, "_super_loss">>, frame.super_loss,
                                frame.stage = "train"),
                            log(<<frame.stage, "_unsup_loss">>, unsup_loss,
                                frame.stage = "train") }
    /\ pcStep' = "loss"
    /\ UNCHANGED << image, info >>
    /\ UNCHANGED << pcMain, hparams, global_seed, model, dataVars >>

\* lines 327-350: the image grid (its contents are not modelled) is written
\* in the train stage when batch_idx % 10 == 0, info is returned and the
\* locals are gone
_common_step_end ==
    /\ pcStep = "loss"
    /\ \E global_step \in GlobalSteps :
         image' = IF writes_image(frame.stage, frame.batch_idx)
                  THEN [written |-> TRUE, tag |-> <<frame.stage, "_samples">>,
                        step |-> image_step(global_step),
                        stage |-> frame.stage, batch_idx |-> frame.batch_idx,
                        global_step |-> global_step]
                  ELSE image
    /\ info' = [returned |-> TRUE, loss |-> frame.loss,
                stage |-> frame.stage, batch_idx |-> frame.batch_idx]
    /\ frame' = NoFrame
    /\ pcStep' = "idle"
    /\ UNCHANGED logged
    /\ UNCHANGED << pcMain, hparams, global_seed, model, dataVars >>

NextRun ==
    \/ Main_datamodule_setup
    \/ Main_model
    \/ Main_seed_everything
    \/ Main_trainer_fit
    \/ \E batch_idx \in BatchIdxs : training_step(batch_idx)
    \/ \E batch_idx \in BatchIdxs : validation_step(batch_idx)
    \/ \E batch_idx \in BatchIdxs : test_step(batch_idx)
    \/ _common_step_loop
    \/ _common_step_loss
    \/ _common_step_end

SpecRun == InitRun /\ [][NextRun]_vars

TypeOKRun ==
    /\ pcMain \in {"setup", "model", "seed_everything", "fit", "training"}
    /\ pcStep \in {"idle", "loop", "loss"}
    /\ frame.stage \in {"none", "train", "validation", "test"}

\* the sequential code of a step runs on once it has started
SpecRunFair ==
    /\ SpecRun
    /\ WF_vars(_common_step_loop)
    /\ WF_vars(_common_step_loss)
    /\ WF_vars(_common_step_end)

\* -------------------------------------------------- claims on the run
\* C3: for every stage and batch_idx the loss returned is super_loss +
\* unsup_loss, super_loss the sum of the two L1 terms on the noise and
\* unsup_loss the sum of the two L1 terms on sample_prev and sample_next.
C3_LossIsSumOfTwoTerms ==
    /\ pcStep = "loss" =>
          /\ frame.super_loss = loss_func(frame.noise, frame.noise_source_pred)
                                + loss_func(frame.noise, frame.noise_target_pred)
          /\ frame.unsup_loss = loss_func(frame.sample["sample_prev"], frame.sample_prev_pred)
                                + loss_func(frame.sample["sample_next"], frame.sample_next_pred)
          /\ frame.loss = frame.super_loss + frame.unsup_loss
          /\ logged = { log(<<frame.stage, "_super_loss">>, frame.super_loss,
                            frame.stage = "train"),
                        log(<<frame.stage, "_unsup_loss">>, frame.unsup_loss,
                            frame.stage = "train") }
    /\ info.returned =>
          \E a, b \in logged :
              /\ a.name[2] = "_super_loss"
              /\ b.name[2] = "_unsup_loss"
              /\ info.loss = a.value + b.value

\* a test step with a batch_idx that is no multiple of 10 and both terms positive
C3_Witness ==
    /\ pcStep = "loss"
    /\ frame.stage = "test"
    /\ frame.batch_idx % 10 = 3
    /\ frame.super_loss = 2
    /\ frame.unsup_loss = 2
    /\ frame.loss = 4

\* C5 (as claimed): when training begins, the seed in effect is --seed.
C5_SeedOfRunIsHparamsSeed ==
    pcMain = "training" => global_seed = [set |-> TRUE, n |-> hparams.seed]

C8_LoopInv ==
    /\ model.built =>
          /\ model.num_timesteps = hparams.timesteps
          /\ model.scheduler.num_train_timesteps = hparams.timesteps
    /\ pcStep \in {"loop", "loss"} =>
          /\ frame.it <= hparams.timesteps
          /\ \A s \in SampleNames : frame.steps[s] = [i \in 1..frame.it |-> i - 1]
    /\ pcStep = "loss" => frame.it = hparams.timesteps

C8_LoopAdvances ==
    [][(pcStep = "loop" /\ pcStep' = "loop") => frame'.it = frame.it + 1]_vars

\* C8: with T = --timesteps the sampling loop ends after exactly T
\* iterations, visiting t = 0, 1, ..., T-1 in ascending order once each, in
\* every iteration all four running samples take one scheduler step with
\* that t, and the scheduler's num_train_timesteps is T.
C8_TimestepsFixLoop ==
    /\ []C8_LoopInv
    /\ C8_LoopAdvances
    /\ (pcStep = "loop") ~> (pcStep = "loss")

\* the loop of a run with two timesteps has ended
C8_Witness ==
    /\ pcStep = "loss"
    /\ hparams.timesteps = 2
    /\ \A s \in SampleNames : frame.steps[s] = <<0, 1>>

\* C11: in every execution of _common_step, with T = num_timesteps,
\* class_prev lies in 0..T-1 and class_next equals class_prev + 1, so
\* class_next lies in 1..T; class_next is the timesteps argument handed to
\* label2image (class_prev the one handed to image2label).  The value T,
\* which is outside the scheduler's timesteps 0..T-1, is reached: C11_Witness.
C11_ClassNextUpToT ==
    /\ pcStep \in {"loop", "loss"} =>
          /\ frame.class_prev \in 0..(model.num_timesteps - 1)
          /\ frame.class_next = frame.class_prev + 1
          /\ frame.class_next \in 1..model.num_timesteps
    /\ pcStep = "loss" =>
          /\ frame.image2label_timesteps = frame.class_prev
          /\ frame.label2image_timesteps = frame.class_next

C11_Witness ==
    /\ pcStep = "loss"
    /\ model.num_timesteps = MaxT
    /\ frame.label2image_timesteps = model.scheduler.num_train_timesteps
    /\ frame.label2image_timesteps \notin
          0..(model.scheduler.num_train_timesteps - 1)

\* C12: the image grid is written only by a step of the train stage whose
\* batch_idx is divisible by 10, under the tag train_samples and at step
\* index global_step // 10; no validation_step or test_step writes an image;
\* every step of every stage logs both <stage>_super_loss and
\* <stage>_unsup_loss, with on_step set exactly when the stage is train.
C12_ImageOnlyInTrainEveryTenth ==
    /\ image.written =>
          /\ image.stage = "train"
          /\ image.batch_idx % 10 = 0
          /\ image.tag = <<"train", "_samples">>
          /\ image.step = image.global_step \div 10
    /\ info.returned =>
          /\ info.stage \in {"validation", "test"} => ~image.written
          /\ image.written =>
                image.stage = info.stage /\ image.batch_idx = info.batch_idx
          /\ { l.name : l \in logged } =
                { <<info.stage, "_super_loss">>, <<info.stage, "_unsup_loss">> }
          /\ \A l \in logged : l.on_step = (info.stage = "train")

C12_Witness ==
    /\ info.returned
    /\ info.stage = "train"
    /\ image.written
    /\ image.batch_idx = 10
    /\ image.global_step = 25
    /\ image.step = 2
    /\ \E l \in logged : l.name = <<"train", "_unsup_loss">> /\ l.on_step

\* ------------------------------------------------- claims on the data
\* C1: a returned sample (no transform) has its image and its label taken
\* from one and the same position rand_idx of data[0] and data[1].
C1_PairedStayPaired ==
    (ret.status = "ok" /\ ~ds.transform) =>
        \E k \in 0..(Len(ds.data[0]) - 1) :
            /\ k < Len(ds.data[1])
            /\ k = ret.pos[1]
            /\ ret.sample[ds.keys[0]] = Item(ds.data[0], k)
            /\ ret.sample[ds.keys[1]] = Item(ds.data[1], k)

\* a sample without transform whose pair sits at a position other than 0
C1_Witness ==
    /\ ret.status = "ok"
    /\ ~ds.transform
    /\ ret.pos[1] >= 1

\* C2: the assembled sample has exactly the four keys of the constructor,
\* the value under keys[j] is an element of data[j] and of no other stream.
C2_FourKeysOwnStreams ==
    ret.status = "ok" =>
        /\ DOMAIN ret.assembled = {ds.keys[j] : j \in Streams}
        /\ Cardinality(DOMAIN ret.assembled) = 4
        /\ DOMAIN ret.sample = DOMAIN ret.assembled
        /\ \A j \in Streams :
              /\ \E k \in 0..(Len(ds.data[j]) - 1) :
                     ret.assembled[ds.keys[j]] = Item(ds.data[j], k)
              /\ \A i \in Streams \ {j} : \A k \in 0..(Len(ds.data[i]) - 1) :
                     ret.assembled[ds.keys[j]] # Item(ds.data[i], k)

\* a sample assembled by train_dataloader's dataset from streams of two files
C2_Witness ==
    /\ ret.status = "ok"
    /\ ds.transform
    /\ \A j \in Streams : Len(ds.data[j]) >= 2
    /\ ret.pos[2] >= 1

EmptyStream == \E j \in {0, 2, 3} : Len(ds.data[j]) = 0

\* C4: the constructor never fails, whatever the directories hold, and with
\* an empty data[0], data[2] or data[3] every _transform call raises and
\* returns no sample.
C4_MissingFilesRaise ==
    /\ dm # "raised"
    /\ (ret.called /\ EmptyStream) =>
           (ret.status = "raise" /\ ret.sample = EmptyDict)

\* a later call that raises because only the unpaired label stream is empty
C4_Witness ==
    /\ dm = "ok"
    /\ ret.called
    /\ ret.later
    /\ ret.status = "raise"
    /\ Len(ds.data[3]) = 0
    /\ \A j \in 0..2 : Len(ds.data[j]) > 0

\* C7: the positions a call selects for its index are those a call for
\* that index selects from any other state of the generator, that is after
\* any other history of calls in any worker: they depend on the index and
\* the streams only.
C7_PositionsDependOnIndexOnly ==
    ret.called =>
        \A r \in 0..(RngStates - 1) :
            LET other == _transform(ds, r, ret.index)
            IN  other.pos = ret.pos /\ other.status = ret.status

\* a call that was not the first, served with a position other than 0, in
\* a state where the workers' generators differ
C7_Witness ==
    /\ ret.status = "ok"
    /\ ret.later
    /\ \E v, w \in Workers : R[v] # R[w]
    /\ ret.pos[1] + ret.pos[2] + ret.pos[3] >= 1

IndexSafetyPre ==
    /\ Len(ds.data[0]) > 0
    /\ Len(ds.data[2]) > 0
    /\ Len(ds.data[3]) > 0
    /\ Len(ds.data[1]) >= Len(ds.data[0])

\* C9: with non-empty data[0], data[2], data[3] and len(data[1]) >=
\* len(data[0]) every call succeeds with positions inside their streams and
\* reads nothing outside a stream; the label stream is always read at
\* rand_idx, which is below len(data[0]).
C9_IndexSafety ==
    ret.called =>
        /\ IndexSafetyPre =>
              /\ ret.status = "ok"
              /\ ret.pos[1] \in 0..(Len(ds.data[0]) - 1)
              /\ ret.pos[2] \in 0..(Len(ds.data[2]) - 1)
              /\ ret.pos[3] \in 0..(Len(ds.data[3]) - 1)
              /\ \A rd \in ret.reads : rd[2] \in 0..(Len(ds.data[rd[1]]) - 1)
        /\ \A rd \in ret.reads :
              rd[1] = 1 => (rd[2] = ret.pos[1] /\ rd[2] < Len(ds.data[0]))

\* a successful call for an index beyond the length of every stream
C9_Witness ==
    /\ ret.status = "ok"
    /\ IndexSafetyPre
    /\ \A j \in Streams : ret.index > Len(ds.data[j])

\* C10: len(dataset) is the explicit length when one was given, the
\* minimum of the stream lengths only when it is None.
C10_LenExplicitOrMin ==
    epoch_len.called =>
        IF train_samples.none
        THEN /\ \A j \in Streams : epoch_len.n <= Len(files[j])
             /\ \E j \in Streams : epoch_len.n = Len(files[j])
        ELSE epoch_len.n = train_samples.n

\* an explicit length larger than every stream
C10_Witness ==
    /\ epoch_len.called
    /\ ~train_samples.none
    /\ \A j \in Streams : epoch_len.n > Len(ds.data[j])

====
